---------------------------- MODULE Spec2Model ----------------------------
(***************************************************************************)
(* A model of gaohuan2015/exploring-generalization:                         *)
(*   src/src/norms/measures.py  recursive measures over a module tree      *)
(*   src/src/train.py           PAC_KL, validate (margin), train, main     *)
(*   src/src/main.py            validate (margin), train, main             *)
(*                                                                         *)
(* Four specifications share the variables; each one leaves the variables  *)
(* of the others at their idle values.                                     *)
(*   SpecMeasures  calc_norm, calc_spectral_norm, get_depth, get_npara     *)
(*   SpecMargin    the margin computation of validate                      *)
(*   SpecPAC       PAC_KL                                                  *)
(*   SpecMain      the two entry points: argument parsing, model and       *)
(*                 sampler construction, the training loop (with weak      *)
(*                 fairness: main() is sequential code that keeps going)   *)
(***************************************************************************)
EXTENDS Integers, Sequences, FiniteSets, TLC

VARIABLES
    net,        \* measures: the module tree handed to a measure
    call,       \* measures: the measure applied and its arguments
    ret,        \* measures: what the call returned or raised
    output,     \* margin: model(data) of the batch, a row of class scores per example
    target,     \* margin: the true class of each example of the batch
    margin,     \* margin: the tensor validate concatenates, before the percentile
    pac_args,   \* PAC_KL: the arguments of the call
    pac_ret,    \* PAC_KL: what the call returned or raised
    script,     \* entry point: "main.py" or "train.py"
    argv,       \* entry point: the command line, each option <<>> or <<value>>
    args,       \* entry point: the namespace parse_args returns
    pc,         \* entry point: the position of main()
    locals,     \* entry point: main()'s local variables model, num_samples, epoch
    log         \* entry point: one record per epoch trained

mvars == <<net, call, ret>>
gvars == <<output, target, margin>>
pvars == <<pac_args, pac_ret>>
rvars == <<script, argv, args, pc, locals, log>>
vars == <<net, call, ret, output, target, margin, pac_args, pac_ret,
          script, argv, args, pc, locals, log>>

Idle == "idle"

\* The values the variables of the other specifications rest at.
IdleMeasures == net = Idle /\ call = Idle /\ ret = Idle
IdleMargin == output = Idle /\ target = Idle /\ margin = Idle
IdlePAC == pac_args = Idle /\ pac_ret = Idle
IdleMain == /\ script = Idle /\ argv = Idle /\ args = Idle
            /\ pc = Idle /\ locals = Idle /\ log = Idle

(***************************************************************************)
(* Module trees.  A module is a record                                     *)
(*   name      the value of _get_name()                                    *)
(*   weight    the weight tensor as weight.view(weight.size(0), -1) shows  *)
(*             it: a sequence of rows (<<>> for a module without weight)   *)
(*   bias      the bias vector, None when the layer has no bias            *)
(*   children  the sequence of child modules                               *)
(***************************************************************************)

\* Bounds of the module trees drawn in InitMeasures.
MaxChildren == 2
MaxNest == 2

None == <<>>

WeightedNames == {"Linear", "Conv1d", "Conv2d", "Conv3d"}

\* The norm orders p and q the measures are applied with.
L1 == "1"
Inf == "Inf"
Norms == {L1, Inf}

\* The weight of each layer type in the trees: a 1x2 and a 2x3 view.
W_a == << <<3, -4>> >>
W_b == << <<2, 0, 0>>, <<0, -1, 0>> >>

LayerWeight(name) == IF name \in {"Linear", "Conv2d"} THEN W_a ELSE W_b

Layer(name, withBias) ==
    [name |-> name, weight |-> LayerWeight(name),
     bias |-> IF withBias THEN [i \in 1..Len(LayerWeight(name)) |-> 1] ELSE None,
     children |-> <<>>]

ReLU == [name |-> "ReLU", weight |-> <<>>, bias |-> None, children |-> <<>>]

Sequential(children) ==
    [name |-> "Sequential", weight |-> <<>>, bias |-> None, children |-> children]

Layers == {Layer(n, b) : n \in WeightedNames, b \in BOOLEAN}

SeqsUpTo(S, n) == UNION {[1..k -> S] : k \in 0..n}

RECURSIVE TreesOfNest(_)
TreesOfNest(d) ==
    IF d = 0 THEN Layers \cup {ReLU}
    ELSE LET below == TreesOfNest(d - 1)
         IN  below \cup {Sequential(cs) : cs \in SeqsUpTo(below, MaxChildren)}

Roots == {t \in TreesOfNest(MaxNest) : t.name = "Sequential"}

(***************************************************************************)
(* Arithmetic of the measures.                                             *)
(***************************************************************************)

Abs(x) == IF x < 0 THEN -x ELSE x

Max2(a, b) == IF a >= b THEN a ELSE b

RECURSIVE SumSeq(_)
SumSeq(s) == IF s = <<>> THEN 0 ELSE Head(s) + SumSeq(Tail(s))

RECURSIVE MaxSeq(_)
MaxSeq(s) == IF s = <<>> THEN 0 ELSE Max2(Head(s), MaxSeq(Tail(s)))

\* Tensor.norm(p) of a vector, for p = 1 and p = Inf.
VecNorm(v, p) ==
    LET a == [i \in 1..Len(v) |-> Abs(v[i])]
    IN  IF p = Inf THEN MaxSeq(a) ELSE SumSeq(a)

\* measures.py norm: the l_p norm of each row, then the l_q norm of those.
norm(module, p, q) ==
    VecNorm([r \in 1..Len(module.weight) |-> VecNorm(module.weight[r], p)], q)

\* The singular values S that weight.view(...).svd() returns.
svd_S(weight) ==
    CASE weight = W_a -> <<5>>
      [] weight = W_b -> <<2, 1>>

\* measures.py op_norm: the l_p norm of the singular values.
op_norm(module, p) == VecNorm(svd_S(module.weight), p)

depth(module) == 1

n_param(module) ==
    LET bparam == IF module.bias = None THEN 0 ELSE Len(module.bias)
    IN  bparam + Len(module.weight) * Len(module.weight[1])

(***************************************************************************)
(* math.log and math.exp.  A logarithm is kept as the vector of prime      *)
(* exponents of its argument, log x = SUM e_p * log p, so that adding      *)
(* logarithms adds the vectors and math.exp multiplies the powers back.    *)
(* (Floating-point rounding of the sum is not modelled.)                   *)
(***************************************************************************)

Primes == {2, 3, 5, 7}

RECURSIVE Multiplicity(_, _)
Multiplicity(p, x) ==
    IF x % p = 0 THEN 1 + Multiplicity(p, x \div p) ELSE 0

RECURSIVE Pow(_, _)
Pow(b, e) == IF e = 0 THEN 1 ELSE b * Pow(b, e - 1)

math_log(x) == [p \in Primes |-> Multiplicity(p, x)]

math_exp(l) == Pow(2, l[2]) * Pow(3, l[3]) * Pow(5, l[5]) * Pow(7, l[7])

LogAdd(a, b) == [p \in Primes |-> a[p] + b[p]]

\* The float 0 passed as the initial result.
LogZero == [p \in Primes |-> 0]

NoCall == [fn |-> Idle, p |-> "-", q |-> "-"]
NotReturned == [raised |-> Idle, value |-> 0]

Returned(v) == [raised |-> "", value |-> v]
Raised(e) == [raised |-> e, value |-> 0]

\* `for child in module`: nn.Sequential defines __iter__, other modules do not.
Iterable(m) == m.name = "Sequential"

(***************************************************************************)
(* calc_norm: the recursive call's return value is dropped, and result is  *)
(* a float passed by value, so the callee's additions never reach the      *)
(* caller; an exception of the callee does.                                *)
(***************************************************************************)
RECURSIVE calc_norm(_, _, _, _)
RECURSIVE calc_norm_loop(_, _, _, _, _)
calc_norm_loop(children, i, p, q, result) ==
    IF i > Len(children) THEN Returned(math_exp(result))
    ELSE LET child == children[i]
         IN  IF child.name \in WeightedNames
             THEN calc_norm_loop(children, i + 1, p, q,
                                 LogAdd(result, math_log(norm(child, p, q))))
             ELSE LET r == calc_norm(child, p, q, result)
                  IN  IF r.raised # "" THEN r
                      ELSE calc_norm_loop(children, i + 1, p, q, result)

calc_norm(module_list, p, q, result) ==
    IF ~Iterable(module_list) THEN Raised("TypeError")
    ELSE calc_norm_loop(module_list.children, 1, p, q, result)

RECURSIVE calc_spectral_norm(_, _, _)
RECURSIVE calc_spectral_norm_loop(_, _, _, _)
calc_spectral_norm_loop(children, i, p, result) ==
    IF i > Len(children) THEN Returned(math_exp(result))
    ELSE LET child == children[i]
         IN  IF child.name \in WeightedNames
             THEN calc_spectral_norm_loop(children, i + 1, p,
                                          LogAdd(result, math_log(op_norm(child, p))))
             ELSE LET r == calc_spectral_norm(child, p, result)
                  IN  IF r.raised # "" THEN r
                      ELSE calc_spectral_norm_loop(children, i + 1, p, result)

calc_spectral_norm(model, p, result) ==
    calc_spectral_norm_loop(model.children, 1, p, result)

RECURSIVE get_depth(_)
RECURSIVE get_depth_loop(_, _, _)
get_depth_loop(children, i, result) ==
    IF i > Len(children) THEN Returned(result)
    ELSE LET child == children[i]
         IN  IF child.name \in WeightedNames
             THEN get_depth_loop(children, i + 1, result + depth(child))
             ELSE LET r == get_depth(child)
                  IN  IF r.raised # "" THEN r
                      ELSE get_depth_loop(children, i + 1, result)

get_depth(model) == get_depth_loop(model.children, 1, 0)

\* get_npara: the other branch calls get_depth(child), as the source does.
RECURSIVE get_npara_loop(_, _, _)
get_npara_loop(children, i, result) ==
    IF i > Len(children) THEN Returned(result)
    ELSE LET child == children[i]
         IN  IF child.name \in WeightedNames
             THEN get_npara_loop(children, i + 1, result + n_param(child))
             ELSE LET r == get_depth(child)
                  IN  IF r.raised # "" THEN r
                      ELSE get_npara_loop(children, i + 1, result)

get_npara(model) == get_npara_loop(model.children, 1, 0)

(***************************************************************************)
(* SpecMeasures: a tree is drawn, then one measure is applied to it.       *)
(***************************************************************************)
InitMeasures ==
    /\ net \in Roots
    /\ call = NoCall
    /\ ret = NotReturned
    /\ IdleMargin /\ IdlePAC /\ IdleMain

CalcNorm ==
    /\ call = NoCall
    /\ \E p \in Norms, q \in Norms :
          /\ call' = [fn |-> "calc_norm", p |-> p, q |-> q]
          /\ ret' = calc_norm(net, p, q, LogZero)
    /\ UNCHANGED <<net, gvars, pvars, rvars>>

CalcSpectralNorm ==
    /\ call = NoCall
    /\ \E p \in Norms :
          /\ call' = [fn |-> "calc_spectral_norm", p |-> p, q |-> "-"]
          /\ ret' = calc_spectral_norm(net, p, LogZero)
    /\ UNCHANGED <<net, gvars, pvars, rvars>>

GetDepth ==
    /\ call = NoCall
    /\ call' = [fn |-> "get_depth", p |-> "-", q |-> "-"]
    /\ ret' = get_depth(net)
    /\ UNCHANGED <<net, gvars, pvars, rvars>>

GetNpara ==
    /\ call = NoCall
    /\ call' = [fn |-> "get_npara", p |-> "-", q |-> "-"]
    /\ ret' = get_npara(net)
    /\ UNCHANGED <<net, gvars, pvars, rvars>>

NextMeasures == CalcNorm \/ CalcSpectralNorm \/ GetDepth \/ GetNpara

SpecMeasures == InitMeasures /\ [][NextMeasures]_vars

(***************************************************************************)
(* What the claims about the measures speak of: all weighted layers of a   *)
(* tree, at any nesting depth, in traversal order.                         *)
(***************************************************************************)
RECURSIVE AllWeighted(_)
RECURSIVE AllWeightedOf(_, _)
AllWeightedOf(children, i) ==
    IF i > Len(children) THEN <<>>
    ELSE AllWeighted(children[i]) \o AllWeightedOf(children, i + 1)

AllWeighted(m) ==
    IF m.name \in WeightedNames THEN <<m>> ELSE AllWeightedOf(m.children, 1)

RECURSIVE ProdSeq(_)
ProdSeq(s) == IF s = <<>> THEN 1 ELSE Head(s) * ProdSeq(Tail(s))

(***************************************************************************)
(* validate: the margin of one batch.  train.py (lines 64-71) and main.py  *)
(* (lines 64-68) hold the same statements.  Classes are numbered from 1.   *)
(***************************************************************************)

\* Bounds of the batches drawn in InitMargin.
MaxClasses == 3
MaxScore == 1

\* The batch holds one example or two: two rows tell output[:, target].diag()
\* from an indexing that mixes the rows.
BatchSizes == {1, 2}

Scores == 0..MaxScore

RowMin(row) == CHOOSE v \in {row[j] : j \in 1..Len(row)} :
                   \A j \in 1..Len(row) : v <= row[j]

RowMax(row) == CHOOSE v \in {row[j] : j \in 1..Len(row)} :
                   \A j \in 1..Len(row) : v >= row[j]

\* A variant of mask_target that overwrites the true class with the row's maximum.
mask_target_max(out, tgt) ==
    [i \in 1..Len(out) |-> [out[i] EXCEPT ![tgt[i]] = RowMax(out[i])]]

\* output_m = output.clone(); output_m[i, target[i]] = output_m[i, :].min()
mask_target(out, tgt) ==
    [i \in 1..Len(out) |-> [out[i] EXCEPT ![tgt[i]] = RowMin(out[i])]]

\* t.max(1)[1]: for each row an index of its maximum; which one among equal
\* maxima is the library's choice.
IsArgMax(t, idx) ==
    /\ DOMAIN idx = DOMAIN t
    /\ \A i \in DOMAIN t : idx[i] \in DOMAIN t[i] /\ t[i][idx[i]] = RowMax(t[i])

\* t[:, idx]: row i holds t[i, idx[j]] in column j.
index_columns(t, idx) ==
    [i \in 1..Len(t) |-> [j \in 1..Len(idx) |-> t[i][idx[j]]]]

diag(t) == [i \in 1..Len(t) |-> t[i][i]]

\* output[:, target].diag() - output_m[:, output_m.max(1)[1]].diag()
batch_margin(out, tgt, out_m, idx) ==
    LET a == diag(index_columns(out, tgt))
        b == diag(index_columns(out_m, idx))
    IN  [i \in 1..Len(out) |-> a[i] - b[i]]

\* torch.cat((margin, batch), 0)
torch_cat(a, b) == a \o b

InitMargin ==
    /\ \E b \in BatchSizes, c \in 2..MaxClasses :
          /\ output \in [1..b -> [1..c -> Scores]]
          /\ target \in [1..b -> 1..c]
    /\ margin = [by |-> Idle, values |-> <<>>]
    /\ IdleMeasures /\ IdlePAC /\ IdleMain

validate(file) ==
    /\ margin.by = Idle
    /\ LET output_m == mask_target(output, target)
       IN  \E idx \in [1..Len(output) -> 1..Len(output[1])] :
              /\ IsArgMax(output_m, idx)
              /\ margin' = [by |-> file,
                            values |-> torch_cat(margin.values,
                                         batch_margin(output, target, output_m, idx))]
    /\ UNCHANGED <<output, target, mvars, pvars, rvars>>

validate_train == validate("train.py")

validate_main == validate("main.py")

NextMargin == validate_train \/ validate_main

SpecMargin == InitMargin /\ [][NextMargin]_vars

(***************************************************************************)
(* PAC_KL.  In Python `sigma ^ 2` is the bitwise exclusive or of sigma     *)
(* and 2.  The square root and the logarithm of the term are left          *)
(* symbolic: the call returns the two addends beside the term and, of the  *)
(* term, the divisor of l2_reg.                                            *)
(***************************************************************************)

\* Bounds of the arguments drawn in InitPAC.
MaxSigma == 4
MaxL2 == 3
MaxSetsize == 3
MaxTrLoss == 2

RECURSIVE BitXor(_, _)
BitXor(a, b) ==
    IF a = 0 /\ b = 0 THEN 0
    ELSE (((a % 2) + (b % 2)) % 2) + 2 * BitXor(a \div 2, b \div 2)

\* 2 * (sigma ^ 2)
PAC_KL_divisor(sigma) == 2 * BitXor(sigma, 2)

PAC_KL(tr_loss, exp_sharpness, l2_reg, setsize, sigma) ==
    IF PAC_KL_divisor(sigma) = 0
    THEN [raised |-> "ZeroDivisionError", addends |-> <<>>, divisor |-> 0]
    ELSE [raised |-> "", addends |-> <<tr_loss, exp_sharpness>>,
          divisor |-> PAC_KL_divisor(sigma)]

InitPAC ==
    /\ pac_args \in [tr_loss : 0..MaxTrLoss, exp_sharpness : 0..1,
                     l2_reg : 0..MaxL2, setsize : 1..MaxSetsize,
                     sigma : 1..MaxSigma]
    /\ pac_ret = [raised |-> Idle, addends |-> <<>>, divisor |-> 0]
    /\ IdleMeasures /\ IdleMargin /\ IdleMain

CallPAC_KL ==
    /\ pac_ret.raised = Idle
    /\ pac_ret' = PAC_KL(pac_args.tr_loss, pac_args.exp_sharpness,
                         pac_args.l2_reg, pac_args.setsize, pac_args.sigma)
    /\ UNCHANGED <<pac_args, mvars, gvars, rvars>>

NextPAC == CallPAC_KL

SpecPAC == InitPAC /\ [][NextPAC]_vars

(***************************************************************************)
(* The entry points: main() of main.py and of train.py.                    *)
(* Losses are integers (hundredths); sizes of the training set count       *)
(* batches, so that an epoch over a sampler of length n trains n batches.  *)
(***************************************************************************)

\* Bounds of the runs drawn in InitMain.
MaxEpochs == 3
MaxLoss == 2
TrainLen == 2

Scripts == {"main.py", "train.py"}

\* The values given to --model (main.py) and --network (train.py): the two
\* the help texts name, and one they do not.
ArchValues == {"vgg", "fc", "resnet"}

\* The values given to --randomlabels.
BoolStrings == {"True", "False", ""}

Losses == 0..MaxLoss

Opt(S) == {<<>>} \cup {<<v>> : v \in S}

\* argparse type=bool: bool(string), true of every string but the empty one.
py_bool(str) == str # ""

get(opt, default) == IF opt = <<>> THEN default ELSE opt[1]

\* main.py lines 78-101
parse_args_main(av) ==
    [randomlabels |-> IF av.randomlabels = <<>> THEN FALSE
                      ELSE py_bool(av.randomlabels[1]),
     trainingsetsize |-> get(av.trainingsetsize, -1),
     arch |-> get(av.arch, "vgg"),
     epochs |-> av.epochs,
     stopcond |-> av.stopcond]

\* train.py lines 134-157; the default 50000 is the length of the training set.
parse_args_train(av) ==
    [randomlabels |-> IF av.randomlabels = <<>> THEN FALSE
                      ELSE py_bool(av.randomlabels[1]),
     trainingsetsize |-> get(av.trainingsetsize, TrainLen),
     arch |-> get(av.arch, "vgg"),
     epochs |-> av.epochs,
     stopcond |-> av.stopcond]

save_epochs_main == {5, 10, 50, 100, 500, 1000}
save_epochs_train == {1, 5, 10, 30, 50, 100, 200, 300, 400, 500, 600, 1000}

\* main.py line 26 `if random_labels:`, train.py line 105
\* `if args.randomlabels == True:`
permutes(file, random_labels) ==
    IF file = "main.py" THEN random_labels ELSE random_labels = TRUE

\* train(): the number of batches of the epoch whose targets were indexed
\* by torch.randperm.
RECURSIVE train_permuted(_, _, _)
train_permuted(file, random_labels, nbatches) ==
    IF nbatches = 0 THEN 0
    ELSE (IF permutes(file, random_labels) THEN 1 ELSE 0)
         + train_permuted(file, random_labels, nbatches - 1)

\* A variant of stop_training that also stops at a loss equal to stopcond.
stop_training_le(tr_loss, stopcond) == tr_loss <= stopcond

\* `if tr_loss < args.stopcond: break`
stop_training(tr_loss, stopcond) == tr_loss < stopcond

\* range(0, args.epochs): the index after `epoch`, <<>> when exhausted.
next_epoch(epoch, epochs) ==
    LET n == IF epoch = <<>> THEN 0 ELSE epoch[1] + 1
    IN  IF n < epochs THEN <<n>> ELSE <<>>

\* The namespace before parse_args has returned.
NoArgs == [randomlabels |-> FALSE, trainingsetsize |-> 0, arch |-> "",
           epochs |-> 0, stopcond |-> 0]

NoLocals == [model |-> FALSE, num_samples |-> <<>>, sampler |-> <<>>,
             epoch |-> <<>>, tr_loss |-> <<>>, val_err |-> FALSE,
             raised |-> ""]

InitMain ==
    /\ script \in Scripts
    /\ argv \in [arch : Opt(ArchValues), randomlabels : Opt(BoolStrings),
                 trainingsetsize : Opt({-1} \cup 1..TrainLen),
                 epochs : 0..MaxEpochs, stopcond : 1..MaxLoss]
    \* train.py lists range(trainingsetsize): its sizes are the positive ones
    /\ script = "train.py" => argv.trainingsetsize # <<-1>>
    /\ args = NoArgs
    /\ pc = "parse_args"
    /\ locals = NoLocals
    /\ log = <<>>
    /\ IdleMeasures /\ IdleMargin /\ IdlePAC

ParseArgs ==
    /\ pc = "parse_args"
    /\ args' = IF script = "main.py" THEN parse_args_main(argv)
               ELSE parse_args_train(argv)
    /\ pc' = "create_model"
    /\ UNCHANGED <<script, argv, locals, log, mvars, gvars, pvars>>

\* main.py lines 119-124: any value but "vgg" prints a message and returns.
\* train.py lines 173-180: a value that is neither "vgg" nor "fc" leaves
\* `model` unbound, and `model.to(device)` raises.
CreateModel ==
    /\ pc = "create_model"
    /\ \/ /\ script = "main.py"
          /\ IF args.arch = "vgg"
             THEN locals' = [locals EXCEPT !.model = TRUE] /\ pc' = "sampler"
             ELSE locals' = locals /\ pc' = "returned"
       \/ /\ script = "train.py"
          /\ IF args.arch \in {"vgg", "fc"}
             THEN locals' = [locals EXCEPT !.model = TRUE] /\ pc' = "sampler"
             ELSE locals' = [locals EXCEPT !.raised = "UnboundLocalError: model"]
                  /\ pc' = "raised"
    /\ UNCHANGED <<script, argv, args, log, mvars, gvars, pvars>>

\* main.py lines 139-142: num_samples is assigned only when the size is -1.
num_samples_main(trainingsetsize) ==
    IF trainingsetsize = -1 THEN <<TrainLen>> ELSE <<>>

\* train.py line 193: SubsetRandomSampler(list(range(trainingsetsize)))
sampler_train(trainingsetsize) == <<trainingsetsize>>

BuildSampler ==
    /\ pc = "sampler"
    /\ \/ /\ script = "main.py"
          /\ LET n == num_samples_main(args.trainingsetsize)
             IN  IF n = <<>>
                 THEN /\ locals' = [locals EXCEPT
                                      !.raised = "UnboundLocalError: num_samples"]
                      /\ pc' = "raised"
                 ELSE /\ locals' = [locals EXCEPT !.num_samples = n, !.sampler = n]
                      /\ pc' = "loop"
       \/ /\ script = "train.py"
          /\ locals' = [locals EXCEPT
                          !.sampler = sampler_train(args.trainingsetsize)]
          /\ pc' = "loop"
    /\ UNCHANGED <<script, argv, args, log, mvars, gvars, pvars>>

\* `for epoch in range(0, args.epochs)`
LoopHead ==
    /\ pc = "loop"
    /\ LET n == next_epoch(locals.epoch, args.epochs)
       IN  IF n # <<>>
           THEN locals' = [locals EXCEPT !.epoch = n] /\ pc' = "train"
           ELSE locals' = locals /\ pc' = "after_loop"
    /\ UNCHANGED <<script, argv, args, log, mvars, gvars, pvars>>

\* tr_err, tr_loss = train(...): the loss is whatever the data and the
\* optimizer make it.
TrainEpoch ==
    /\ pc = "train"
    /\ \E loss \in Losses :
          /\ locals' = [locals EXCEPT !.tr_loss = <<loss>>]
          /\ log' = Append(log,
                [epoch |-> locals.epoch[1], tr_loss |-> loss,
                 permuted |-> train_permuted(script, args.randomlabels,
                                             locals.sampler[1]),
                 batches |-> locals.sampler[1],
                 validated |-> FALSE, saved |-> FALSE])
    /\ pc' = "validate"
    /\ UNCHANGED <<script, argv, args, mvars, gvars, pvars>>

\* val_err, val_loss, val_margin = validate(...)
ValidateEpoch ==
    /\ pc = "validate"
    /\ locals' = [locals EXCEPT !.val_err = TRUE]
    /\ log' = [log EXCEPT ![Len(log)].validated = TRUE]
    /\ pc' = "check_stop"
    /\ UNCHANGED <<script, argv, args, mvars, gvars, pvars>>

\* the checkpoint of a save epoch, then the stopping condition
CheckStop ==
    /\ pc = "check_stop"
    /\ log' = [log EXCEPT ![Len(log)].saved =
                 locals.epoch[1] \in (IF script = "main.py" THEN save_epochs_main
                                      ELSE save_epochs_train)]
    /\ pc' = IF stop_training(locals.tr_loss[1], args.stopcond)
             THEN "after_loop" ELSE "loop"
    /\ UNCHANGED <<script, argv, args, locals, mvars, gvars, pvars>>

\* After the loop main.py prints val_err (lines 164-166) and train.py passes
\* epoch and val_err to save_checkpoint (lines 216-219): unbound when the
\* loop body never ran.
AfterLoop ==
    /\ pc = "after_loop"
    /\ IF locals.epoch = <<>>
       THEN /\ locals' = [locals EXCEPT !.raised =
                            IF script = "main.py" THEN "UnboundLocalError: val_err"
                            ELSE "UnboundLocalError: epoch"]
            /\ pc' = "raised"
       ELSE /\ locals' = locals
            /\ pc' = "done"
    /\ UNCHANGED <<script, argv, args, log, mvars, gvars, pvars>>

NextMain ==
    \/ ParseArgs
    \/ CreateModel
    \/ BuildSampler
    \/ LoopHead
    \/ TrainEpoch
    \/ ValidateEpoch
    \/ CheckStop
    \/ AfterLoop

\* main() is sequential code: whenever a step is possible, it is taken.
SpecMain == InitMain /\ [][NextMain]_vars /\ WF_vars(NextMain)


(***************************************************************************)
(* The claims.                                                             *)
(***************************************************************************)

NormsOf(layers, p, q) == [i \in 1..Len(layers) |-> norm(layers[i], p, q)]
OpNormsOf(layers, p) == [i \in 1..Len(layers) |-> op_norm(layers[i], p)]
NParamsOf(layers) == [i \in 1..Len(layers) |-> n_param(layers[i])]

\* C1: calc_norm(tree, p, q, 0) returns the product of norm(layer, p, q) over
\* all weighted layers of the tree at any nesting depth, and
\* calc_spectral_norm(model, p, 0) the product of op_norm(layer, p) over them.
C1_ProductOverAllLayers ==
    /\ call.fn = "calc_norm" =>
          ret = Returned(ProdSeq(NormsOf(AllWeighted(net), call.p, call.q)))
    /\ call.fn = "calc_spectral_norm" =>
          ret = Returned(ProdSeq(OpNormsOf(AllWeighted(net), call.p)))

\* C1, the failing input: a Linear layer inside a nested Sequential; its
\* l_{1,1} norm is 7 and calc_norm returns exp(0) = 1.
C1_NestedLayerDropped ==
    /\ net = Sequential(<<Sequential(<<Layer("Linear", TRUE)>>)>>)
    /\ call = [fn |-> "calc_norm", p |-> L1, q |-> L1]
    /\ norm(Layer("Linear", TRUE), L1, L1) = 7
    /\ ret = Returned(1)

\* C3: get_depth(model) is the number of weighted layers of the tree at any
\* nesting depth.
C3_DepthCountsAllLayers ==
    call.fn = "get_depth" => ret = Returned(Len(AllWeighted(net)))

\* C3, the failing input: two nested weighted layers beside one direct child;
\* get_depth returns 1.
C3_NestedLayersUncounted ==
    /\ net = Sequential(<<Layer("Conv2d", TRUE),
                          Sequential(<<Layer("Conv2d", TRUE), Layer("Linear", TRUE)>>)>>)
    /\ call.fn = "get_depth"
    /\ ret = Returned(1)

\* C4: get_npara(model) is the sum of n_param(layer) over all weighted layers
\* of the tree at any nesting depth.
C4_NparaSumsAllLayers ==
    call.fn = "get_npara" => ret = Returned(SumSeq(NParamsOf(AllWeighted(net))))

\* C4, the failing input: a nested Conv1d (2 bias entries, 2 x 3 weights) beside
\* a direct Linear without bias (1 x 2 weights); get_npara returns 2, not 10.
C4_NestedParamsUncounted ==
    /\ net = Sequential(<<Layer("Linear", FALSE),
                          Sequential(<<Layer("Conv1d", TRUE)>>)>>)
    /\ call.fn = "get_npara"
    /\ n_param(Layer("Conv1d", TRUE)) = 8
    /\ ret = Returned(2)

\* The best score of row `row` among the classes other than t.
BestOther(row, t) ==
    CHOOSE v \in {row[c] : c \in DOMAIN row \ {t}} :
        \A c \in DOMAIN row \ {t} : v >= row[c]

\* C2: for every example i of a batch with at least two classes, the margin
\* validate computes is output[i, target[i]] minus the maximum of output[i, c]
\* over the classes c other than target[i].
C2_MarginIsGapToBestOther ==
    margin.by # Idle =>
        /\ Len(margin.values) = Len(output)
        /\ \A i \in 1..Len(output) :
              margin.values[i] = output[i][target[i]] - BestOther(output[i], target[i])

\* C2, its case: validate has run on a batch of two examples over three
\* classes, the first with the true class strictly on top, the second with
\* the true class at the bottom and the other two tied.
C2_MarginComputed ==
    /\ margin.by = "main.py"
    /\ output = << <<0, 1, 0>>, <<1, 0, 1>> >>
    /\ target = <<2, 2>>
    /\ margin.values = <<1, -1>>

\* C5: PAC_KL returns tr_loss + exp_sharpness + term, and the term divides
\* l2_reg by 2 * sigma * sigma for every integer sigma >= 1.
C5_DivisorIsTwoSigmaSquared ==
    pac_ret.raised # Idle =>
        /\ pac_ret.raised = ""
        /\ pac_ret.addends = <<pac_args.tr_loss, pac_args.exp_sharpness>>
        /\ pac_ret.divisor = 2 * pac_args.sigma * pac_args.sigma

\* C5, the failing input: with the default sigma = 1 the divisor is
\* 2 * (1 xor 2) = 6.
C5_DefaultSigmaDividesBySix ==
    /\ pac_args.sigma = 1
    /\ pac_ret.raised = ""
    /\ pac_ret.divisor = 6

\* C6: for each documented architecture (vgg, fc) both entry points create a
\* model and go on to training; neither option ends the run before training
\* or leaves the model undefined.
C6_DocumentedArchCreatesModel ==
    (pc \notin {"parse_args", "create_model"} /\ args.arch \in {"vgg", "fc"}) =>
        (locals.model /\ pc # "returned")

\* C6, the failing input: main.py --model fc returns before training.
C6_MainFcReturns ==
    /\ script = "main.py"
    /\ argv.arch = <<"fc">>
    /\ pc = "returned"
    /\ ~locals.model
    /\ log = <<>>

\* C7: the targets of each training batch are permuted if and only if the
\* value given to --randomlabels is True; with False, or without the option,
\* every batch trains on the unmodified targets.
C7_PermutedIffTrue ==
    \A i \in DOMAIN log :
        log[i].permuted = (IF argv.randomlabels = <<"True">> THEN log[i].batches ELSE 0)

\* C7, the failing input: --randomlabels False permutes every batch.
C7_FalsePermutes ==
    /\ argv.randomlabels = <<"False">>
    /\ log # <<>>
    /\ log[1].batches > 0
    /\ log[1].permuted = log[1].batches

\* C8: in main.py, for the default -1 and every positive --trainingsetsize,
\* the sampler is built with a defined number of samples: the length of the
\* training set for -1, the requested size otherwise.
C8_SamplerSizeDefined ==
    (script = "main.py" /\ locals.model
        /\ pc \notin {"parse_args", "create_model", "sampler"}) =>
        locals.num_samples = <<IF args.trainingsetsize = -1 THEN TrainLen
                               ELSE args.trainingsetsize>>

\* C8, the failing input: main.py --trainingsetsize 1 raises at the sampler.
C8_PositiveSizeRaises ==
    /\ script = "main.py"
    /\ argv.trainingsetsize = <<1>>
    /\ pc = "raised"
    /\ locals.raised = "UnboundLocalError: num_samples"

LoopLeft == pc \in {"after_loop", "done", "raised"} /\ locals.sampler # <<>>

Below(i) == log[i].tr_loss < args.stopcond

C9_Safety ==
    pc # "parse_args" =>
        /\ Len(log) <= args.epochs
        /\ \A i \in DOMAIN log : log[i].epoch = i - 1
        /\ \A i \in DOMAIN log : i < Len(log) => (~Below(i) /\ log[i].validated)
        /\ LoopLeft =>
              /\ \A i \in DOMAIN log : log[i].validated
              /\ IF \E i \in DOMAIN log : Below(i)
                 THEN Below(Len(log))
                 ELSE Len(log) = args.epochs

=============================================================================
